---- MODULE Spec2Model ----
(***************************************************************************)
(* A model of app.py, the AED Patient Data Management System.              *)
(*                                                                         *)
(* app.py is a script that is executed from its first line to its last on  *)
(* every user interaction: it reads AED4weeks.csv into the data frame df,  *)
(* derives the column Breach_binary, runs the branch of the selected menu  *)
(* entry and ends.  A run is two steps of the model: Rerun (lines 1-60,    *)
(* the load) and then the one branch the widgets select.  SpecFail takes   *)
(* the two writing branches statement by statement, with the statements    *)
(* that can raise and with a crash of the process.  The files are          *)
(* modelled as text: a sequence of lines, a line a sequence of cells, an   *)
(* integer cell the sequence of the characters pandas writes for it.       *)
(***************************************************************************)
EXTENDS Integers, Sequences, FiniteSets, TLC

VARIABLES
    fs,      \* the directory: file name -> [exists, lines]
    log,     \* the lines of activity_log.txt
    df,      \* the data frame of the current (last) run
    now,     \* the wall clock, in seconds
    pc,      \* position of the script: "start" before the first run, "run"
             \* after line 40, "idle" after the last line, or a step of a write
    req,     \* the widgets' values in the current (last) run
    loaded,  \* the data frame as lines 34-40 of the run built it
    msg,     \* the message the run showed (st.success / st.warning / ...)
    calls    \* number of log_action calls made so far

vars == <<fs, log, df, now, pc, req, loaded, msg, calls>>

-----------------------------------------------------------------------------
(* Bounds of the model *)

MaxRows == 4      \* rows of the initial AED4weeks.csv
MaxLog == 2       \* log_action calls in a behaviour
MaxClock == 1     \* seconds the clock may advance

-----------------------------------------------------------------------------
(* File names *)

LOG_FILE == "activity_log.txt"
DATA_FILE == "AED4weeks.csv"

temp_file_direct == DATA_FILE
temp_file == "AED4weeks_temp.csv"

FileNames == {DATA_FILE, temp_file}

Absent == [exists |-> FALSE, lines |-> <<>>]
FileOf(lines) == [exists |-> TRUE, lines |-> lines]

-----------------------------------------------------------------------------
(* Text of a cell *)

Digits == <<"0", "1", "2", "3", "4", "5", "6", "7", "8", "9">>

RECURSIVE NatText(_)
NatText(n) ==
    IF n < 10 THEN <<Digits[n + 1]>>
    ELSE NatText(n \div 10) \o <<Digits[(n % 10) + 1]>>

\* str(n) of an int64 cell, as to_csv writes it
IntText(n) == IF n < 0 THEN <<"-">> \o NatText(0 - n) ELSE NatText(n)

DigitValue(c) == (CHOOSE i \in 1..10 : Digits[i] = c) - 1

RECURSIVE NatValue(_)
NatValue(t) ==
    IF Len(t) = 1 THEN DigitValue(t[1])
    ELSE 10 * NatValue(SubSeq(t, 1, Len(t) - 1)) + DigitValue(t[Len(t)])

\* the int64 read_csv parses from a cell
IntValue(t) ==
    IF t[1] = "-" THEN 0 - NatValue(SubSeq(t, 2, Len(t))) ELSE NatValue(t)

\* the value pandas' map gives a key that is not in the dictionary
NaN == -1

\* df["Breachornot"].map({"non-breach": 0, "breach": 1})
BreachMap(s) ==
    CASE s = "non-breach" -> 0
      [] s = "breach" -> 1
      [] OTHER -> NaN

\* to_csv writes a missing value as the empty cell
BinText(b) == IF b = NaN THEN <<>> ELSE IntText(b)
BinValue(t) == IF t = <<>> THEN NaN ELSE IntValue(t)

-----------------------------------------------------------------------------
(* The table as text: to_csv and read_csv *)

StoredColumns ==
    <<"ID", "Age", "LoS", "noofinvestigation", "nooftreatment",
      "noofpatients", "Breachornot">>

numeric_columns ==
    <<"Age", "LoS", "noofinvestigation", "nooftreatment", "noofpatients">>

FrameColumns == Append(StoredColumns, "Breach_binary")

IsNumeric(c) == \E i \in 1..Len(numeric_columns) : numeric_columns[i] = c

\* one cell of a data frame row as to_csv writes it
CellText(row, c) ==
    IF IsNumeric(c) THEN IntText(row[c])
    ELSE IF c = "Breach_binary" THEN BinText(row[c])
    ELSE <<row[c]>>

\* one cell as read_csv types it
CellValue(t, c) ==
    IF IsNumeric(c) THEN IntValue(t)
    ELSE IF c = "Breach_binary" THEN BinValue(t)
    ELSE t[1]

LineOf(row, cols) == [k \in 1..Len(cols) |-> CellText(row, cols[k])]

\* df.to_csv(path, index=False): the header, then every column of every row
to_csv(d) ==
    <<[k \in 1..Len(FrameColumns) |-> <<FrameColumns[k]>>]>>
        \o [i \in 1..Len(d) |-> LineOf(d[i], FrameColumns)]

HeaderOf(lines) == [k \in 1..Len(lines[1]) |-> lines[1][k][1]]

ColumnIndex(header, c) == CHOOSE k \in 1..Len(header) : header[k] = c

HasColumn(header, c) == \E k \in 1..Len(header) : header[k] = c

\* pd.read_csv(path): one typed record per line after the header
read_csv(lines) ==
    LET header == HeaderOf(lines)
        names == {header[k] : k \in 1..Len(header)}
    IN  [i \in 1..(Len(lines) - 1) |->
            [c \in names |->
                CellValue(lines[i + 1][ColumnIndex(header, c)], c)]]

\* lines 34-40: read the file, then set (or overwrite) the derived column
Load(lines) ==
    LET raw == read_csv(lines)
    IN  [i \in 1..Len(raw) |->
            [c \in {FrameColumns[k] : k \in 1..Len(FrameColumns)} |->
                IF c = "Breach_binary" THEN BreachMap(raw[i]["Breachornot"])
                ELSE raw[i][c]]]

-----------------------------------------------------------------------------
(* The operations on the data frame and on the files *)

IDsOf(d) == {d[i]["ID"] : i \in 1..Len(d)}

\* df.index[df["ID"] == patient_id][0]: the label of the first matching row
\* (read_csv labels the rows by position)
FirstIndex(d, pid) ==
    CHOOSE i \in 1..Len(d) :
        d[i]["ID"] = pid /\ \A j \in 1..(i - 1) : d[j]["ID"] # pid

SetFields(row, f) ==
    [row EXCEPT !["Age"] = f.age,
                !["LoS"] = f.los,
                !["noofinvestigation"] = f.investigations,
                !["nooftreatment"] = f.treatments,
                !["Breachornot"] = f.breach]

UpdateRow_everyMatch(d, pid, f) ==
    [i \in 1..Len(d) |-> IF d[i]["ID"] = pid THEN SetFields(d[i], f) ELSE d[i]]

\* lines 174-181: five df.at[row_index, column] = value assignments
UpdateRow(d, pid, f) ==
    [d EXCEPT ![FirstIndex(d, pid)] = SetFields(@, f)]

DeleteRows_firstOnly(d, pid) ==
    LET r == FirstIndex(d, pid)
    IN  SubSeq(d, 1, r - 1) \o SubSeq(d, r + 1, Len(d))

\* line 208: df = df[df["ID"] != patient_id]
DeleteRows(d, pid) ==
    LET keep(row) == row["ID"] # pid
    IN  SelectSeq(d, keep)

DeleteOutcome_unconfirmed(confirm, found) ==
    IF found THEN "deleted" ELSE "not_found"

\* lines 205-214: the branch the Delete button takes
DeleteOutcome(confirm, found) ==
    IF ~confirm THEN "confirm_warning"
    ELSE IF found THEN "deleted"
    ELSE "not_found"

\* open(path, "w") ... write: the file holds exactly the lines written
WriteFile(f, name, lines) == [f EXCEPT ![name] = FileOf(lines)]

\* os.replace(src, dst): dst becomes src's content in one step, src is gone
os_replace(f, src, dst) ==
    IF src = dst THEN f
    ELSE [f EXCEPT ![dst] = f[src], ![src] = Absent]

\* lines 184-186: write the frame to the temporary file, then replace
SaveSafely(f, d) ==
    os_replace(WriteFile(f, temp_file, to_csv(d)), temp_file, DATA_FILE)

LogLine(t, action) == [timestamp |-> t, action |-> action]

log_action_truncating(l, t, action) == <<LogLine(t, action)>>

\* lines 20-23: append "[timestamp] action" to the log file
log_action(l, t, action) == Append(l, LogLine(t, action))

\* lines 124-125: int(df[column].min()), int(df[column].max())
ColumnMin(d, c) ==
    CHOOSE v \in {d[i][c] : i \in 1..Len(d)} :
        \A i \in 1..Len(d) : v <= d[i][c]
ColumnMax(d, c) ==
    CHOOSE v \in {d[i][c] : i \in 1..Len(d)} :
        \A i \in 1..Len(d) : v >= d[i][c]

\* lines 132-135: the rows with low <= value <= high
filter_range(d, c, low, high) ==
    LET inside(row) == row[c] >= low /\ row[c] <= high
    IN  SelectSeq(d, inside)

-----------------------------------------------------------------------------
(* Inputs *)

\* the IDs typed into the text inputs: one the shipped rows hold (twice), one
\* they do not
PatientIDs == {"P1", "P9"}

\* the variable picked in the Filter select box
ColumnChoices == {"Age"}

ShippedIDs == <<"P1", "P2", "P1", "P3", "P4">>

\* row i of the shipped AED4weeks.csv: rows 1 and 3 share an ID, every third
\* row is a breach
ShippedRow(i) ==
    [c \in {StoredColumns[k] : k \in 1..Len(StoredColumns)} |->
        CASE c = "ID" -> ShippedIDs[((i - 1) % Len(ShippedIDs)) + 1]
          [] c = "Age" -> 30 + i
          [] c = "LoS" -> 80 * i
          [] c = "noofinvestigation" -> i % 3
          [] c = "nooftreatment" -> i % 2
          [] c = "noofpatients" -> 10 - i
          [] OTHER -> IF i % 3 = 0 THEN "breach" ELSE "non-breach"]

\* the shipped file has the stored columns only
StoredCsv(n) ==
    <<[k \in 1..Len(StoredColumns) |-> <<StoredColumns[k]>>]>>
        \o [i \in 1..n |-> LineOf(ShippedRow(i), StoredColumns)]

\* the values the Modify form may hold when Update Record is clicked
FormValues ==
    { [age |-> 35, los |-> 300, investigations |-> 2, treatments |-> 1,
       breach |-> "breach"],
      [age |-> -1, los |-> 9, investigations |-> 0, treatments |-> 12,
       breach |-> "non-breach"] }

NoForm ==
    [age |-> 0, los |-> 0, investigations |-> 0, treatments |-> 0,
     breach |-> "non-breach"]

Request(menu, pid, button, confirm, form) ==
    [menu |-> menu, patient_id |-> pid, button |-> button,
     confirm |-> confirm, form |-> form]

-----------------------------------------------------------------------------
(* The runs of the script *)

\* the script can start: line 34 reads a file that holds at least a header
Ready ==
    /\ pc \in {"start", "idle", "failed", "crashed"}
    /\ fs[DATA_FILE].exists
    /\ fs[DATA_FILE].lines # <<>>

\* datetime.datetime.now(): the clock does not go back
Tick == {t \in {now, now + 1} : t <= MaxClock}

Init ==
    /\ \E n \in 0..MaxRows :
          fs = [f \in FileNames |->
                  IF f = DATA_FILE THEN FileOf(StoredCsv(n)) ELSE Absent]
    /\ log = <<>>
    /\ df = <<>>
    /\ now = 0
    /\ pc = "start"
    /\ req = Request("none", "", FALSE, FALSE, NoForm)
    /\ loaded = <<>>
    /\ msg = "none"
    /\ calls = 0

\* lines 1-60: a user interaction starts the script, which reads the file
\* and derives Breach_binary; the widgets are not yet read
Rerun ==
    /\ Ready
    /\ \E t \in Tick : now' = t
    /\ df' = Load(fs[DATA_FILE].lines)
    /\ loaded' = df'
    /\ req' = Request("none", "", FALSE, FALSE, NoForm)
    /\ msg' = "none"
    /\ pc' = "run"
    /\ UNCHANGED <<fs, log, calls>>

\* a branch that reaches its log_action call
Logged(action) ==
    /\ calls < MaxLog
    /\ log' = log_action(log, now, action)
    /\ calls' = calls + 1

\* a branch that ends without a log_action call
NotLogged == UNCHANGED <<log, calls>>

\* lines 65-90.  The charts of an empty frame are left to the plotting
\* library, which may raise before line 90.
Dashboard ==
    /\ pc = "run"
    /\ \E drawn \in (IF df = <<>> THEN BOOLEAN ELSE {TRUE}) :
          IF drawn
          THEN msg' = "dashboard" /\ Logged(<<"Viewed dashboard">>)
          ELSE msg' = "exception" /\ NotLogged
    /\ req' = Request("Dashboard", "", FALSE, FALSE, NoForm)
    /\ pc' = "idle"
    /\ UNCHANGED <<fs, df, loaded, now>>

\* lines 95-100, 142-147 and 198-204 when nothing is typed or clicked: the
\* page of the menu entry is drawn
PageShown ==
    /\ pc = "run"
    /\ \E menu \in {"Search Patient by ID", "Modify Patient Data",
                    "Delete Patient Data"} :
          /\ req' = Request(menu, "", FALSE, FALSE, NoForm)
          /\ msg' = IF menu = "Modify Patient Data"
                    THEN "enter_valid_id" ELSE "none"
    /\ NotLogged
    /\ pc' = "idle"
    /\ UNCHANGED <<fs, df, loaded, now>>

\* lines 95-109 with Search clicked
Search ==
    /\ pc = "run"
    /\ \E pid \in PatientIDs :
          /\ req' = Request("Search Patient by ID", pid, TRUE, FALSE, NoForm)
          /\ IF pid \in IDsOf(df)
             THEN /\ msg' = "found"
                  /\ Logged(<<"Retrieved Patient ID ", pid>>)
             ELSE /\ msg' = "no_patient"
                  /\ Logged(<<"Searched Patient ID ", pid, " - Not found">>)
    /\ pc' = "idle"
    /\ UNCHANGED <<fs, df, loaded, now>>

\* lines 114-140.  On an empty frame min() is NaN and int(NaN) raises.
Filter ==
    /\ pc = "run"
    /\ \E column \in ColumnChoices :
          IF df = <<>>
          THEN msg' = "exception" /\ NotLogged
          ELSE LET min_val == ColumnMin(df, column)
                   max_val == ColumnMax(df, column)
               IN  \E high \in {min_val, max_val} :
                      /\ msg' = "filtered"
                      /\ Logged(<<"Filtered patients by ", column,
                                  " range ", <<min_val, high>>>>)
    /\ req' = Request("Filter Patients", "", FALSE, FALSE, NoForm)
    /\ pc' = "idle"
    /\ UNCHANGED <<fs, df, loaded, now>>

\* lines 142-192 when an ID is typed and nothing is updated: the ID is not
\* in the frame (line 192), or the form is shown and Update Record is not
\* clicked
ModifyShown ==
    /\ pc = "run"
    /\ \E pid \in PatientIDs :
          /\ req' = Request("Modify Patient Data", pid, FALSE, FALSE, NoForm)
          /\ msg' = IF pid \in IDsOf(df) THEN "form" ELSE "enter_valid_id"
    /\ NotLogged
    /\ pc' = "idle"
    /\ UNCHANGED <<fs, df, loaded, now>>

\* lines 142-189 with Update Record clicked on an ID of the frame
ModifyUpdate ==
    /\ pc = "run"
    /\ \E pid \in PatientIDs \cap IDsOf(df), form \in FormValues :
          /\ df' = UpdateRow(df, pid, form)
          /\ req' = Request("Modify Patient Data", pid, TRUE, FALSE, form)
          /\ fs' = SaveSafely(fs, df')
          /\ Logged(<<"Modified Patient ID ", pid>>)
    /\ msg' = "updated"
    /\ pc' = "idle"
    /\ UNCHANGED <<loaded, now>>

\* lines 198-214 with Delete clicked when the file is not written: the box
\* is not ticked, or the ID is not in the frame
DeleteKept ==
    /\ pc = "run"
    /\ \E pid \in PatientIDs, confirm \in BOOLEAN :
          LET outcome == DeleteOutcome(confirm, pid \in IDsOf(df)) IN
          /\ outcome # "deleted"
          /\ req' = Request("Delete Patient Data", pid, TRUE, confirm, NoForm)
          /\ msg' = outcome
          /\ IF outcome = "confirm_warning"
             THEN NotLogged
             ELSE Logged(<<"Attempted delete for Patient ID ", pid,
                           " - Not found">>)
    /\ pc' = "idle"
    /\ UNCHANGED <<fs, df, loaded, now>>

\* lines 204-211 when rows are deleted
DeleteDone ==
    /\ pc = "run"
    /\ \E pid \in PatientIDs, confirm \in BOOLEAN :
          LET outcome == DeleteOutcome(confirm, pid \in IDsOf(df)) IN
          /\ outcome = "deleted"
          /\ df' = DeleteRows(df, pid)
          /\ req' = Request("Delete Patient Data", pid, TRUE, confirm, NoForm)
          /\ fs' = WriteFile(fs, DATA_FILE, to_csv(df'))
          /\ msg' = outcome
          /\ Logged(<<"Deleted Patient ID ", pid>>)
    /\ pc' = "idle"
    /\ UNCHANGED <<loaded, now>>

Next ==
    \/ Rerun
    \/ Dashboard
    \/ PageShown
    \/ Search
    \/ Filter
    \/ ModifyShown
    \/ ModifyUpdate
    \/ DeleteKept
    \/ DeleteDone

Spec == Init /\ [][Next]_vars

-----------------------------------------------------------------------------
(* The two writing branches step by step, with the steps that fail.  A     *)
(* write that fails, or during which the process dies, leaves the lines    *)
(* written so far; an open that fails leaves the file as it was.           *)

\* what a write of lines to file name may leave behind when it does not end
PartialWrites(f, name, lines) ==
    {f} \cup {WriteFile(f, name, SubSeq(lines, 1, k)) : k \in 0..(Len(lines) - 1)}

\* lines 172-181
UpdateAssign ==
    /\ pc = "run"
    /\ calls < MaxLog
    /\ \E pid \in PatientIDs \cap IDsOf(df), form \in FormValues :
          /\ df' = UpdateRow(df, pid, form)
          /\ req' = Request("Modify Patient Data", pid, TRUE, FALSE, form)
    /\ pc' = "assigned"
    /\ UNCHANGED <<fs, log, now, loaded, msg, calls>>

\* line 185
WriteTemp ==
    /\ pc = "assigned"
    /\ fs' = WriteFile(fs, temp_file, to_csv(df))
    /\ pc' = "written"
    /\ UNCHANGED <<log, df, now, req, loaded, msg, calls>>

\* line 185 raises
WriteTempFails ==
    /\ pc = "assigned"
    /\ fs' \in PartialWrites(fs, temp_file, to_csv(df))
    /\ msg' = "exception"
    /\ pc' = "failed"
    /\ UNCHANGED <<log, df, now, req, loaded, calls>>

\* line 186
ReplaceTemp ==
    /\ pc = "written"
    /\ fs' = os_replace(fs, temp_file, DATA_FILE)
    /\ pc' = "replaced"
    /\ UNCHANGED <<log, df, now, req, loaded, msg, calls>>

\* line 186 raises
ReplaceFails ==
    /\ pc = "written"
    /\ msg' = "exception"
    /\ pc' = "failed"
    /\ UNCHANGED <<fs, log, df, now, req, loaded, calls>>

\* lines 188-189
LogModified ==
    /\ pc = "replaced"
    /\ msg' = "updated"
    /\ Logged(<<"Modified Patient ID ", req.patient_id>>)
    /\ pc' = "idle"
    /\ UNCHANGED <<fs, df, now, req, loaded>>

\* lines 204-208
DeleteFilter ==
    /\ pc = "run"
    /\ calls < MaxLog
    /\ \E pid \in PatientIDs, confirm \in BOOLEAN :
          /\ DeleteOutcome(confirm, pid \in IDsOf(df)) = "deleted"
          /\ df' = DeleteRows(df, pid)
          /\ req' = Request("Delete Patient Data", pid, TRUE, confirm, NoForm)
    /\ pc' = "filtered"
    /\ UNCHANGED <<fs, log, now, loaded, msg, calls>>

\* line 209
WriteData ==
    /\ pc = "filtered"
    /\ fs' = WriteFile(fs, DATA_FILE, to_csv(df))
    /\ pc' = "rewritten"
    /\ UNCHANGED <<log, df, now, req, loaded, msg, calls>>

\* line 209 raises
WriteDataFails ==
    /\ pc = "filtered"
    /\ fs' \in PartialWrites(fs, DATA_FILE, to_csv(df))
    /\ msg' = "exception"
    /\ pc' = "failed"
    /\ UNCHANGED <<log, df, now, req, loaded, calls>>

\* lines 210-211
LogDeleted ==
    /\ pc = "rewritten"
    /\ msg' = "deleted"
    /\ Logged(<<"Deleted Patient ID ", req.patient_id>>)
    /\ pc' = "idle"
    /\ UNCHANGED <<fs, df, now, req, loaded>>

\* the process dies between two steps of a writing branch: its memory is
\* gone, the files stay as they are
Crash ==
    /\ pc \in {"assigned", "written", "replaced", "filtered", "rewritten"}
    /\ df' = <<>>
    /\ msg' = "none"
    /\ pc' = "crashed"
    /\ UNCHANGED <<fs, log, now, req, loaded, calls>>

\* the runs of the two writing branches; the other branches write no file
NextFail ==
    \/ Rerun
    \/ UpdateAssign
    \/ WriteTemp
    \/ WriteTempFails
    \/ ReplaceTemp
    \/ ReplaceFails
    \/ LogModified
    \/ DeleteFilter
    \/ WriteData
    \/ WriteDataFails
    \/ LogDeleted
    \/ Crash

SpecFail == Init /\ [][NextFail]_vars

-----------------------------------------------------------------------------
(* Properties *)

DataLines == fs[DATA_FILE].lines

DeleteClicked(r) == r.menu = "Delete Patient Data" /\ r.button
UpdateClicked(r) == r.menu = "Modify Patient Data" /\ r.button

\* the rows of old whose ID is not pid are exactly the rows of new, the k-th
\* of them at position k
KeptInOrder(old, new, pid) ==
    LET keep == {i \in 1..Len(old) : old[i]["ID"] # pid}
    IN  /\ Len(new) = Cardinality(keep)
        /\ \A i \in keep : new[Cardinality({j \in keep : j <= i})] = old[i]

\* C1: a confirmed delete of an ID of the table removes every row with that
\* ID and keeps the other rows in their order; a confirmed delete of an ID
\* the table does not hold reports not-found and changes neither the table
\* nor the file.
C1_DeleteRemovesAll ==
    [][ (pc = "run" /\ DeleteClicked(req') /\ req'.confirm) =>
            IF req'.patient_id \in IDsOf(df)
            THEN /\ msg' = "deleted"
                 /\ req'.patient_id \notin IDsOf(df')
                 /\ KeptInOrder(df, df', req'.patient_id)
            ELSE /\ msg' = "not_found"
                 /\ df' = df
                 /\ fs' = fs ]_vars

\* a delete took two rows with the same ID out of four and left the two
\* others
C1_Witness ==
    /\ pc = "idle"
    /\ DeleteClicked(req) /\ req.confirm
    /\ msg = "deleted"
    /\ Len(loaded) = 4
    /\ Cardinality({i \in 1..4 : loaded[i]["ID"] = req.patient_id}) = 2
    /\ df = <<loaded[2], loaded[4]>>

\* C2: an update changes nothing but Age, LoS, noofinvestigation,
\* nooftreatment and Breachornot of the first row with the ID: every other
\* row, and ID, noofpatients and Breach_binary of that row, stay.
C2_UpdateIsScoped ==
    [][ (pc = "run" /\ UpdateClicked(req')) =>
            LET matches == {i \in 1..Len(df) : df[i]["ID"] = req'.patient_id}
                first == CHOOSE i \in matches : \A j \in matches : i <= j
            IN  /\ matches # {}
                /\ Len(df') = Len(df)
                /\ \A i \in 1..Len(df) : i # first => df'[i] = df[i]
                /\ \A c \in {"ID", "noofpatients", "Breach_binary"} :
                      df'[first][c] = df[first][c] ]_vars

\* an update of an ID that two rows hold changed the first of them and left
\* the second
C2_Witness ==
    /\ pc = "idle"
    /\ UpdateClicked(req)
    /\ msg = "updated"
    /\ Cardinality({i \in 1..Len(loaded) :
                        loaded[i]["ID"] = req.patient_id}) = 2
    /\ df[1] # loaded[1]
    /\ df[1]["Age"] = req.form.age
    /\ df[3] = loaded[3]

\* every column the file holds, in every row, has the value of the data
\* frame, row by row
FileMatchesFrame ==
    LET rows == read_csv(DataLines)
    IN  /\ Len(rows) = Len(df)
        /\ \A i \in 1..Len(rows) :
              \A c \in DOMAIN rows[i] : rows[i][c] = df[i][c]

\* C3: outside an update or a delete (after the load, and after each run
\* has ended) the file matches the table field for field, in row order.
C3_FileMatchesTable ==
    pc \in {"run", "idle"} => FileMatchesFrame

\* C4: at every step of the update branch, the failing steps and a crash
\* included, the data file is left as it was or holds the whole updated
\* table: it is never cut short.
C4_UpdateWriteIsAtomic ==
    [][ UpdateClicked(req') =>
            \/ fs'[DATA_FILE] = fs[DATA_FILE]
            \/ /\ pc' = "replaced"
               /\ fs'[DATA_FILE] = FileOf(to_csv(df')) ]_vars

\* line 185 failed after a part of the temporary file was written, and the
\* data file still holds the table the run loaded
C4_Witness ==
    /\ pc = "failed"
    /\ UpdateClicked(req)
    /\ fs[temp_file].exists
    /\ Len(fs[temp_file].lines) > 1
    /\ Len(fs[temp_file].lines) < Len(to_csv(df))
    /\ Load(DataLines) = loaded
    /\ df # loaded

\* C5: the table an update or a delete has written, when it is not empty,
\* is the table a load of the file gives: same rows, same value in every
\* field, Breach_binary included, same order.
C5_RoundTrip ==
    (pc = "idle" /\ msg \in {"updated", "deleted"} /\ df # <<>>) =>
        Load(DataLines) = df

\* C6: a delete clicked without the confirmation changes neither the table
\* nor the file, whether the ID is in the table or not; and a row leaves
\* the table or the file only in a delete clicked with the confirmation.
C6_DeleteNeedsConfirmation ==
    [][ /\ (pc = "run" /\ DeleteClicked(req') /\ ~req'.confirm) =>
              /\ msg' = "confirm_warning"
              /\ df' = df
              /\ fs' = fs
        /\ (\/ Len(df') < Len(df)
            \/ Len(fs'[DATA_FILE].lines) < Len(fs[DATA_FILE].lines)) =>
              (DeleteClicked(req') /\ req'.confirm) ]_vars

\* a delete of an ID of the table was clicked without the confirmation
C6_Witness ==
    /\ pc = "idle"
    /\ DeleteClicked(req) /\ ~req.confirm
    /\ req.patient_id \in IDsOf(df)
    /\ msg = "confirm_warning"
    /\ df = loaded
    /\ Load(DataLines) = df

\* C7: the log only grows at its end: the log holds one line for each
\* log_action call, and a step either calls log_action once and appends one
\* line, stamped with the time of the run, after the lines that were
\* there, or leaves the log as it is.
C7_LogAppendOnly ==
    /\ [](Len(log) = calls)
    /\ [][ \/ calls' = calls /\ log' = log
           \/ /\ calls' = calls + 1
              /\ Len(log') = Len(log) + 1
              /\ SubSeq(log', 1, Len(log)) = log
              /\ DOMAIN log'[Len(log')] = {"timestamp", "action"}
              /\ log'[Len(log')].timestamp = now ]_vars

\* two calls left two lines, in call order
C7_Witness ==
    /\ calls = 2
    /\ Len(log) = 2
    /\ log[1].action = <<"Modified Patient ID ", "P1">>
    /\ log[2].action = <<"Deleted Patient ID ", "P1">>
    /\ log[1].timestamp < log[2].timestamp

\* the run is one of the operations of the user: a dashboard view, a
\* filter, a search or a delete clicked, a modify of a typed ID
UserOperation(r) ==
    \/ r.menu \in {"Dashboard", "Filter Patients"}
    \/ r.menu = "Search Patient by ID" /\ r.button
    \/ r.menu = "Delete Patient Data" /\ r.button
    \/ r.menu = "Modify Patient Data" /\ r.patient_id # ""

\* C8: every operation of the user that ends without an exception appends
\* exactly one line to the log, a delete clicked without the confirmation
\* and a modify of an ID that is not in the table included.
C8_EveryOperationLogged ==
    [][ (pc = "run" /\ pc' = "idle" /\ UserOperation(req')
            /\ msg' # "exception") =>
            Len(log') = Len(log) + 1 ]_vars

\* C9: after a step of an update or of a delete has failed, the table in
\* memory is the table the run loaded.
C9_FailureKeepsTable ==
    pc = "failed" => df = loaded

\* C10: the data file never holds a column Breach_binary.
C10_BinaryNotPersisted ==
    ~HasColumn(HeaderOf(DataLines), "Breach_binary")

====
